---- MODULE Spec2Model ----
(***************************************************************************)
(* Page-scan pipeline of parse_cv_lv.py and parse_cv_lv_m_i.py: the batch  *)
(* loop of main, scrape_page with its helpers, and the result presenters.  *)
(*                                                                         *)
(* A Python string is a sequence of tokens (<<>> is ""), a Python list a   *)
(* sequence, a dict a record; a key a dict may lack ("error") is a field   *)
(* the record may lack.  None and "" are both <<>> where the code only     *)
(* tests truthiness.  The non-ASCII literals of the source are written in  *)
(* ASCII.                                                                  *)
(***************************************************************************)
EXTENDS Integers, Sequences, FiniteSets, TLC

VARIABLES
    script,      \* which program runs: "parse_cv_lv" or "parse_cv_lv_m_i"
    args,        \* parsed command line: urls, output, markdown, md_file
    pc,          \* position of the single thread of control
    results,     \* main: results
    i,           \* main: how many urls the for loop has taken
    url,         \* main: loop variable, scrape_page: url
    page_data,   \* scrape_page: page_data
    html,        \* scrape_page: resp.text, the fetched document
    img_tags,    \* scrape_page: img_tags
    k,           \* scrape_page: position of the for loop over img_tags
    tmpdirs,     \* temporary directories that exist on disk
    tmpfiles,    \* files that exist inside temporary directories
    files,       \* output files written by main
    stdout,      \* what main printed, in order
    calls,       \* history: helper calls made by the current scrape_page call
    img_log,     \* history: what happened to each img tag of the current page
    detected,    \* detect_relevant_langs alone: what detect_langs did
    relevant     \* detect_relevant_langs alone: what it returned

vars == <<script, args, pc, results, i, url, page_data, html, img_tags, k,
          tmpdirs, tmpfiles, files, stdout, calls, img_log, detected, relevant>>

-----------------------------------------------------------------------------
(* Bounds of the model *)

MaxUrls == 2

-----------------------------------------------------------------------------
(* Strings *)

Whitespace == {" ", "\n", "\t"}

RECURSIVE lstrip(_)
lstrip(s) ==
    IF s # <<>> /\ Head(s) \in Whitespace THEN lstrip(Tail(s)) ELSE s

RECURSIVE rstrip(_)
rstrip(s) ==
    IF s # <<>> /\ s[Len(s)] \in Whitespace
    THEN rstrip(SubSeq(s, 1, Len(s) - 1))
    ELSE s

strip(s) == rstrip(lstrip(s))

RECURSIVE join(_, _)
join(sep, items) ==
    IF items = <<>> THEN <<>>
    ELSE IF Len(items) = 1 THEN items[1]
    ELSE items[1] \o sep \o join(sep, Tail(items))

\* re.sub(r"\s+", " ", s)
RECURSIVE collapse_whitespace(_)
collapse_whitespace(s) ==
    IF s = <<>> THEN <<>>
    ELSE IF Head(s) \in Whitespace
    THEN <<" ">> \o collapse_whitespace(lstrip(s))
    ELSE <<Head(s)>> \o collapse_whitespace(Tail(s))

-----------------------------------------------------------------------------
(* Helpers of the scanner *)

TARGET_LANGS == [lav |-> <<"Latvian">>, rus |-> <<"Russian">>, eng |-> <<"English">>]

\* A text node of the parsed document: its parent's tag, whether it is a
\* Comment, and its text.
is_visible_element(element) ==
    IF element.parent \in {"style", "script", "head", "title", "meta", "[document]"}
    THEN FALSE
    ELSE IF element.comment THEN FALSE
    ELSE IF strip(element.text) = <<>> THEN FALSE
    ELSE TRUE

\* t.strip() for t in visible_texts
RECURSIVE stripped_texts(_)
stripped_texts(elements) ==
    IF elements = <<>> THEN <<>>
    ELSE <<strip(Head(elements).text)>> \o stripped_texts(Tail(elements))

extract_visible_text(doc) ==
    LET visible_texts == SelectSeq(doc.strings, is_visible_element)
        joined == join(<<" ">>, stripped_texts(visible_texts))
    IN  collapse_whitespace(joined)

\* det is what langdetect's detect_langs did: it raised, or it returned the
\* ranked codes det.langs.
in_target_langs(l) == l \in DOMAIN TARGET_LANGS

\* mutant: the detector's codes are passed on unfiltered
detect_relevant_langs_unfiltered(det) ==
    IF det.raised THEN <<>> ELSE det.langs

detect_relevant_langs(det) ==
    IF det.raised THEN <<>> ELSE SelectSeq(det.langs, in_target_langs)

\* src.startswith("http"), on the first token of src
startswith_http(src) == src # <<>> /\ Head(src) \in {"http://cdn/"}

\* img_url of scrape_page: an absolute src is kept, a relative one is joined
\* to the page's url.
img_url_of(page_url, src) ==
    IF startswith_http(src) THEN src ELSE page_url \o src

\* tempfile.TemporaryDirectory(): a fresh directory for this page.
mkdtemp == i

\* mutant: the directory is left behind
cleanup_leaves_directory(dirs, d) == dirs

\* __exit__ of the with block: the directory and all it holds are removed.
cleanup(dirs, d) == dirs \ {d}

new_page_data(u) ==
    [url |-> u, visible_text |-> <<>>, visible_text_langs |-> <<>>, images |-> <<>>]

-----------------------------------------------------------------------------
(* Inputs: the command line and what the network and the libraries answer *)

\* The pages of the batch, in command-line order.
AllUrls == << <<"http://b/">>, <<"http://a/">>, <<"http://c/">>, <<"http://b/">> >>

UrlLists == {SubSeq(AllUrls, 1, n) : n \in 1..MaxUrls}

None == <<>>

ArgSets ==
    [script : {"parse_cv_lv"}, output : {None, <<"out.json">>},
     markdown : {FALSE}, md_file : {None}]
    \cup
    [script : {"parse_cv_lv_m_i"}, output : {None, <<"out.json">>},
     markdown : BOOLEAN, md_file : {None, <<"out.md">>}]

\* str(e) of what session.get or raise_for_status raised
FetchErrors == {<<"timeout">>, <<"404 Client Error">>}

\* Text nodes of a document, in document order.
Body1 == << [parent |-> "title", comment |-> FALSE, text |-> <<"T">>],
            [parent |-> "p", comment |-> FALSE, text |-> <<" ", "Hello", "\n", "\t", "World", " ">>],
            [parent |-> "script", comment |-> FALSE, text |-> <<"js">>],
            [parent |-> "p", comment |-> TRUE, text |-> <<"note">>],
            [parent |-> "div", comment |-> FALSE, text |-> <<"\n", " ">>] >>

Body2 == << [parent |-> "head", comment |-> FALSE, text |-> <<"meta">>],
            [parent |-> "style", comment |-> FALSE, text |-> <<"css">>] >>

\* The documents a fetch can return: their text nodes and the src of each
\* img tag, in document order (<<>> is an img tag without src).
HtmlDocs ==
    { [strings |-> Body2, imgs |-> <<>>],
      [strings |-> Body1, imgs |-> <<>>],
      [strings |-> Body1, imgs |-> << <<>>, <<"a.png">> >>],
      [strings |-> Body2, imgs |-> << <<"a.png">>, <<>>, <<"http://cdn/", "b.png">> >>] }

\* What langdetect's detect_langs does on a text: it raises on a text
\* without letters, and otherwise raises or returns ranked codes.
DetectorRaised == [raised |-> TRUE, langs |-> <<>>]

DetectorResults(text) ==
    IF strip(text) = <<>> THEN {DetectorRaised}
    ELSE {DetectorRaised, [raised |-> FALSE, langs |-> <<"en", "rus", "lv", "eng">>]}

\* What Image.open / pytesseract.image_to_string do on the downloaded file:
\* they raise, find no text, or find the text the picture shows.
OcrResults(img_url) ==
    { [raised |-> TRUE, text |-> <<>>],
      [raised |-> FALSE, text |-> <<" ", "\n">>],
      [raised |-> FALSE, text |-> <<" ", "text of ">> \o img_url \o <<"\n">>] }

\* ocr_image: any exception yields "".
ocr_image(ocr) == IF ocr.raised THEN <<>> ELSE ocr.text

-----------------------------------------------------------------------------
(* Result presenters *)

\* dict.get(key, default)
get(d, key, default) == IF key \in DOMAIN d THEN d[key] ELSE default

\* TARGET_LANGS.get(l, l)
lang_name(l) == IF l \in DOMAIN TARGET_LANGS THEN TARGET_LANGS[l] ELSE <<l>>

\* [TARGET_LANGS.get(l, l) for l in langs]
RECURSIVE lang_names(_)
lang_names(codes) ==
    IF codes = <<>> THEN <<>>
    ELSE <<lang_name(Head(codes))>> \o lang_names(Tail(codes))

\* the lines format_results_as_markdown appends for one image
md_image_lines(img) ==
    LET ocr_langs == get(img, "ocr_langs", <<>>)
    IN  << <<"### Image: ">> \o get(img, "src", <<>>) \o <<"\n">>,
           get(img, "ocr_text", <<>>) \o <<"\n">> >>
        \o (IF ocr_langs # <<>>
            THEN << <<"**OCR languages:** ">>
                    \o join(<<", ">>, lang_names(ocr_langs)) \o <<"\n">> >>
            ELSE <<>>)

RECURSIVE md_images_lines(_)
md_images_lines(images) ==
    IF images = <<>> THEN <<>>
    ELSE md_image_lines(Head(images)) \o md_images_lines(Tail(images))

\* mutant: the error branch does not continue, the sections follow the error line
md_page_lines_without_continue(page) ==
    LET heading == <<"# URL: ">> \o get(page, "url", <<>>) \o <<"\n">>
        langs == get(page, "visible_text_langs", <<>>)
        images == get(page, "images", <<>>)
    IN  (IF "error" \in DOMAIN page
         THEN << heading, <<"**Error:** ">> \o page.error \o <<"\n">> >>
         ELSE << heading >>)
        \o << <<"## Visible text", "\n">>,
               get(page, "visible_text", <<>>) \o <<"\n">> >>
        \o (IF langs # <<>>
            THEN << <<"**Detected languages:** ">>
                    \o join(<<", ">>, lang_names(langs)) \o <<"\n">> >>
            ELSE <<>>)
        \o (IF images # <<>>
            THEN << <<"## Images with OCR", "\n">> >> \o md_images_lines(images)
            ELSE <<>>)

\* the lines format_results_as_markdown appends for one page
md_page_lines(page) ==
    LET heading == <<"# URL: ">> \o get(page, "url", <<>>) \o <<"\n">>
        langs == get(page, "visible_text_langs", <<>>)
        images == get(page, "images", <<>>)
    IN  IF "error" \in DOMAIN page
        THEN << heading, <<"**Error:** ">> \o page.error \o <<"\n">> >>
        ELSE << heading,
                <<"## Visible text", "\n">>,
                get(page, "visible_text", <<>>) \o <<"\n">> >>
             \o (IF langs # <<>>
                 THEN << <<"**Detected languages:** ">>
                         \o join(<<", ">>, lang_names(langs)) \o <<"\n">> >>
                 ELSE <<>>)
             \o (IF images # <<>>
                 THEN << <<"## Images with OCR", "\n">> >> \o md_images_lines(images)
                 ELSE <<>>)

RECURSIVE md_lines(_)
md_lines(pages) ==
    IF pages = <<>> THEN <<>>
    ELSE md_page_lines(Head(pages)) \o md_lines(Tail(pages))

format_results_as_markdown(pages) == join(<<"\n">>, md_lines(pages))

\* mutant: the texts are collected without the test for emptiness
RECURSIVE ocr_texts_of_images_unfiltered(_)
ocr_texts_of_images_unfiltered(images) ==
    IF images = <<>> THEN <<>>
    ELSE <<strip(get(Head(images), "ocr_text", <<>>))>>
         \o ocr_texts_of_images_unfiltered(Tail(images))

\* the texts print_ocr_text_only collects from one page
RECURSIVE ocr_texts_of_images(_)
ocr_texts_of_images(images) ==
    IF images = <<>> THEN <<>>
    ELSE LET text == strip(get(Head(images), "ocr_text", <<>>))
         IN  (IF text # <<>> THEN <<text>> ELSE <<>>)
             \o ocr_texts_of_images(Tail(images))

RECURSIVE ocr_texts(_)
ocr_texts(pages) ==
    IF pages = <<>> THEN <<>>
    ELSE (IF "images" \in DOMAIN Head(pages)
          THEN ocr_texts_of_images(Head(pages).images)
          ELSE <<>>)
         \o ocr_texts(Tail(pages))

\* print(x): x and a line terminator go to standard output
print(x) == x \o <<"\n">>

\* what print_ocr_text_only writes to standard output
print_ocr_text_only(pages) == print(join(<<"\n", "\n">>, ocr_texts(pages)))

\* json.dump(results, f, ensure_ascii=False, indent=2)
json_dump(pages) ==
    [format |-> "json", indent |-> 2, ensure_ascii |-> FALSE, value |-> pages]

NoDocument ==
    [format |-> "none", indent |-> 0, ensure_ascii |-> FALSE, value |-> <<>>]

\* something written to a sink: by which rendering mode, its text (markdown,
\* text-only, message) or its JSON document
Written(mode, text, document) == [mode |-> mode, text |-> text, document |-> document]

FileWritten(path, w) ==
    [path |-> path, mode |-> w.mode, text |-> w.text, document |-> w.document]

Message(path) == Written("message", print(<<"saved to: ">> \o path), NoDocument)

-----------------------------------------------------------------------------
(* main: the batch loop *)

Init ==
    /\ \E a \in ArgSets, us \in UrlLists :
          /\ script = a.script
          /\ args = [urls |-> us, output |-> a.output,
                     markdown |-> a.markdown, md_file |-> a.md_file]
    /\ pc = "main_loop"
    /\ results = <<>>
    /\ i = 0
    /\ url = <<>>
    /\ page_data = new_page_data(<<>>)
    /\ html = [strings |-> <<>>, imgs |-> <<>>]
    /\ img_tags = <<>>
    /\ k = 0
    /\ tmpdirs = {}
    /\ tmpfiles = {}
    /\ files = {}
    /\ stdout = <<>>
    /\ calls = <<>>
    /\ img_log = <<>>
    /\ detected = DetectorRaised
    /\ relevant = <<>>

outputs_unchanged == UNCHANGED <<files, stdout>>
inputs_unchanged == UNCHANGED <<script, args, detected, relevant>>

\* for url in tqdm(args.urls): the next url; scrape_page is entered
ForNext ==
    /\ pc = "main_loop"
    /\ i < Len(args.urls)
    /\ i' = i + 1
    /\ url' = args.urls[i + 1]
    /\ page_data' = new_page_data(args.urls[i + 1])
    /\ pc' = "scrape_fetch"
    /\ calls' = <<>>
    /\ img_log' = <<>>
    /\ UNCHANGED <<results, html, img_tags, k, tmpdirs, tmpfiles>>
    /\ outputs_unchanged /\ inputs_unchanged

\* mutant: the error is recorded but the scan goes on with an empty document
FetchFail_falls_through ==
    /\ pc = "scrape_fetch"
    /\ \E e \in FetchErrors : page_data' = page_data @@ [error |-> e]
    /\ calls' = Append(calls, "session.get raised")
    /\ html' = [strings |-> <<>>, imgs |-> <<>>]
    /\ pc' = "scrape_parse"
    /\ UNCHANGED <<results, i, url, img_tags, k, tmpdirs, tmpfiles, img_log>>
    /\ outputs_unchanged /\ inputs_unchanged

\* session.get / raise_for_status raised: the record gets "error" and is returned
FetchFail ==
    /\ pc = "scrape_fetch"
    /\ \E e \in FetchErrors : page_data' = page_data @@ [error |-> e]
    /\ calls' = Append(calls, "session.get raised")
    /\ pc' = "scrape_return"
    /\ UNCHANGED <<results, i, url, html, img_tags, k, tmpdirs, tmpfiles, img_log>>
    /\ outputs_unchanged /\ inputs_unchanged

\* session.get succeeded: html = resp.text
FetchOk ==
    /\ pc = "scrape_fetch"
    /\ \E doc \in HtmlDocs : html' = doc
    /\ calls' = Append(calls, "session.get")
    /\ pc' = "scrape_parse"
    /\ UNCHANGED <<results, i, url, page_data, img_tags, k, tmpdirs, tmpfiles, img_log>>
    /\ outputs_unchanged /\ inputs_unchanged

\* mutant: the temporary directory is entered whether or not there are img tags
ParsePage_always_tmpdir ==
    /\ pc = "scrape_parse"
    /\ LET visible_text == extract_visible_text(html)
       IN  \E det \in DetectorResults(visible_text) :
              page_data' = [page_data EXCEPT
                               !.visible_text = visible_text,
                               !.visible_text_langs = detect_relevant_langs(det)]
    /\ img_tags' = html.imgs
    /\ calls' = calls \o <<"extract_visible_text", "detect_relevant_langs", "find_all">>
    /\ pc' = "scrape_tmpdir"
    /\ UNCHANGED <<results, i, url, html, k, tmpdirs, tmpfiles, img_log>>
    /\ outputs_unchanged /\ inputs_unchanged

\* visible text, its languages, and the img tags; a page without img tags returns
ParsePage ==
    /\ pc = "scrape_parse"
    /\ LET visible_text == extract_visible_text(html)
       IN  \E det \in DetectorResults(visible_text) :
              page_data' = [page_data EXCEPT
                               !.visible_text = visible_text,
                               !.visible_text_langs = detect_relevant_langs(det)]
    /\ img_tags' = html.imgs
    /\ calls' = calls \o <<"extract_visible_text", "detect_relevant_langs", "find_all">>
    /\ pc' = IF html.imgs = <<>> THEN "scrape_return" ELSE "scrape_tmpdir"
    /\ UNCHANGED <<results, i, url, html, k, tmpdirs, tmpfiles, img_log>>
    /\ outputs_unchanged /\ inputs_unchanged

\* with tempfile.TemporaryDirectory() as dtmp
EnterTmp ==
    /\ pc = "scrape_tmpdir"
    /\ tmpdirs' = tmpdirs \cup {mkdtemp}
    /\ calls' = Append(calls, "TemporaryDirectory")
    /\ k' = 1
    /\ pc' = "scrape_image"
    /\ UNCHANGED <<results, i, url, page_data, html, img_tags, tmpfiles, img_log>>
    /\ outputs_unchanged /\ inputs_unchanged

\* an img tag without src: continue
ImgNoSrc ==
    /\ pc = "scrape_image"
    /\ k <= Len(img_tags)
    /\ img_tags[k] = <<>>
    /\ img_log' = Append(img_log, [src |-> <<>>, download |-> "none",
                                   ocr_raised |-> FALSE, det_raised |-> FALSE])
    /\ k' = k + 1
    /\ UNCHANGED <<pc, results, i, url, page_data, html, img_tags, tmpdirs, tmpfiles, calls>>
    /\ outputs_unchanged /\ inputs_unchanged

\* download_image returned None: continue
ImgDownloadFail ==
    /\ pc = "scrape_image"
    /\ k <= Len(img_tags)
    /\ img_tags[k] # <<>>
    /\ img_log' = Append(img_log, [src |-> img_url_of(url, img_tags[k]),
                                   download |-> "failed",
                                   ocr_raised |-> FALSE, det_raised |-> FALSE])
    /\ calls' = Append(calls, "download_image")
    /\ k' = k + 1
    /\ UNCHANGED <<pc, results, i, url, page_data, html, img_tags, tmpdirs, tmpfiles>>
    /\ outputs_unchanged /\ inputs_unchanged

\* mutant: an image whose OCR raised is skipped like a failed download
ImgProcessed_skips_failed_ocr ==
    /\ pc = "scrape_image"
    /\ k <= Len(img_tags)
    /\ img_tags[k] # <<>>
    /\ LET img_url == img_url_of(url, img_tags[k])
       IN  \E ocr \in OcrResults(img_url) :
           \E det \in DetectorResults(ocr_image(ocr)) :
              /\ page_data' = IF ocr.raised THEN page_data
                              ELSE [page_data EXCEPT !.images = Append(@,
                                      [src |-> img_url, ocr_text |-> ocr_image(ocr),
                                       ocr_langs |-> detect_relevant_langs(det)])]
              /\ tmpfiles' = tmpfiles \cup {<<mkdtemp, img_url>>}
              /\ img_log' = Append(img_log, [src |-> img_url, download |-> "ok",
                                             ocr_raised |-> ocr.raised,
                                             det_raised |-> det.raised])
    /\ calls' = calls \o <<"download_image", "ocr_image", "detect_relevant_langs">>
    /\ k' = k + 1
    /\ UNCHANGED <<pc, results, i, url, html, img_tags, tmpdirs>>
    /\ outputs_unchanged /\ inputs_unchanged

\* download_image wrote the file: OCR, language detection, append
ImgProcessed ==
    /\ pc = "scrape_image"
    /\ k <= Len(img_tags)
    /\ img_tags[k] # <<>>
    /\ LET img_url == img_url_of(url, img_tags[k])
       IN  \E ocr \in OcrResults(img_url) :
           \E det \in DetectorResults(ocr_image(ocr)) :
              /\ page_data' = [page_data EXCEPT !.images = Append(@,
                                  [src |-> img_url, ocr_text |-> ocr_image(ocr),
                                   ocr_langs |-> detect_relevant_langs(det)])]
              /\ tmpfiles' = tmpfiles \cup {<<mkdtemp, img_url>>}
              /\ img_log' = Append(img_log, [src |-> img_url, download |-> "ok",
                                             ocr_raised |-> ocr.raised,
                                             det_raised |-> det.raised])
    /\ calls' = calls \o <<"download_image", "ocr_image", "detect_relevant_langs">>
    /\ k' = k + 1
    /\ UNCHANGED <<pc, results, i, url, html, img_tags, tmpdirs>>
    /\ outputs_unchanged /\ inputs_unchanged

\* the with block is left: the directory is removed
ExitTmp ==
    /\ pc = "scrape_image"
    /\ k > Len(img_tags)
    /\ tmpdirs' = cleanup(tmpdirs, mkdtemp)
    /\ tmpfiles' = {f \in tmpfiles : f[1] \in cleanup(tmpdirs, mkdtemp)}
    /\ calls' = Append(calls, "cleanup")
    /\ pc' = "scrape_return"
    /\ UNCHANGED <<results, i, url, page_data, html, img_tags, k, img_log>>
    /\ outputs_unchanged /\ inputs_unchanged

\* mutant: the results so far are saved to the -o file after every page
ReturnAppend_saves_partial_results ==
    /\ pc = "scrape_return"
    /\ results' = Append(results, page_data)
    /\ files' = IF args.output # None
                THEN {f \in files : f.path # args.output}
                     \cup {FileWritten(args.output,
                                       Written("json", <<>>,
                                               json_dump(Append(results, page_data))))}
                ELSE files
    /\ page_data' = new_page_data(<<>>)
    /\ url' = <<>>
    /\ html' = [strings |-> <<>>, imgs |-> <<>>]
    /\ img_tags' = <<>>
    /\ k' = 0
    /\ calls' = <<>>
    /\ img_log' = <<>>
    /\ pc' = "main_loop"
    /\ UNCHANGED <<i, tmpdirs, tmpfiles, stdout>>
    /\ inputs_unchanged

\* mutant: a page whose fetch failed is left out of the results
ReturnAppend_drops_failed_page ==
    /\ pc = "scrape_return"
    /\ results' = IF "error" \in DOMAIN page_data THEN results
                  ELSE Append(results, page_data)
    /\ page_data' = new_page_data(<<>>)
    /\ url' = <<>>
    /\ html' = [strings |-> <<>>, imgs |-> <<>>]
    /\ img_tags' = <<>>
    /\ k' = 0
    /\ calls' = <<>>
    /\ img_log' = <<>>
    /\ pc' = "main_loop"
    /\ UNCHANGED <<i, tmpdirs, tmpfiles>>
    /\ outputs_unchanged /\ inputs_unchanged

\* return page_data; results.append(...)
ReturnAppend ==
    /\ pc = "scrape_return"
    /\ results' = Append(results, page_data)
    /\ page_data' = new_page_data(<<>>)
    /\ url' = <<>>
    /\ html' = [strings |-> <<>>, imgs |-> <<>>]
    /\ img_tags' = <<>>
    /\ k' = 0
    /\ calls' = <<>>
    /\ img_log' = <<>>
    /\ pc' = "main_loop"
    /\ UNCHANGED <<i, tmpdirs, tmpfiles>>
    /\ outputs_unchanged /\ inputs_unchanged

scan_unchanged ==
    UNCHANGED <<results, i, url, page_data, html, img_tags, k, tmpdirs, tmpfiles,
                calls, img_log>>

\* the for loop of main is exhausted
LoopDone == pc = "main_loop" /\ i = Len(args.urls)

\* mutant: the markdown branch also writes the JSON file when -o is given
PresentMarkdown_and_json ==
    /\ LoopDone
    /\ script = "parse_cv_lv_m_i"
    /\ args.markdown \/ args.md_file # None
    /\ LET md_output == Written("markdown", format_results_as_markdown(results), NoDocument)
           md_files == IF args.md_file # None
                       THEN {FileWritten(args.md_file, md_output)} ELSE {}
           json_files == IF args.output # None
                         THEN {FileWritten(args.output,
                                           Written("json", <<>>, json_dump(results)))}
                         ELSE {}
       IN  /\ files' = files \cup md_files \cup json_files
           /\ stdout' = stdout
                        \o (IF args.md_file # None THEN <<Message(args.md_file)>> ELSE <<>>)
                        \o (IF args.markdown THEN <<md_output>> ELSE <<>>)
    /\ pc' = "done"
    /\ scan_unchanged /\ inputs_unchanged

\* parse_cv_lv_m_i.py: if args.markdown or args.md_file
PresentMarkdown ==
    /\ LoopDone
    /\ script = "parse_cv_lv_m_i"
    /\ args.markdown \/ args.md_file # None
    /\ LET md_output == Written("markdown", format_results_as_markdown(results), NoDocument)
       IN  /\ files' = IF args.md_file # None
                       THEN files \cup {FileWritten(args.md_file, md_output)}
                       ELSE files
           /\ stdout' = stdout
                        \o (IF args.md_file # None THEN <<Message(args.md_file)>> ELSE <<>>)
                        \o (IF args.markdown THEN <<md_output>> ELSE <<>>)
    /\ pc' = "done"
    /\ scan_unchanged /\ inputs_unchanged

\* parse_cv_lv_m_i.py: elif args.output
PresentJsonFile ==
    /\ LoopDone
    /\ script = "parse_cv_lv_m_i"
    /\ ~(args.markdown \/ args.md_file # None)
    /\ args.output # None
    /\ files' = files \cup {FileWritten(args.output, Written("json", <<>>, json_dump(results)))}
    /\ stdout' = Append(stdout, Message(args.output))
    /\ pc' = "done"
    /\ scan_unchanged /\ inputs_unchanged

\* parse_cv_lv_m_i.py: else
PresentTextOnly ==
    /\ LoopDone
    /\ script = "parse_cv_lv_m_i"
    /\ ~(args.markdown \/ args.md_file # None)
    /\ ~(args.output # None)
    /\ stdout' = Append(stdout, Written("text", print_ocr_text_only(results), NoDocument))
    /\ files' = files
    /\ pc' = "done"
    /\ scan_unchanged /\ inputs_unchanged

\* parse_cv_lv.py: if args.output
CvPresentFile ==
    /\ LoopDone
    /\ script = "parse_cv_lv"
    /\ args.output # None
    /\ files' = files \cup {FileWritten(args.output, Written("json", <<>>, json_dump(results)))}
    /\ stdout' = Append(stdout, Message(args.output))
    /\ pc' = "done"
    /\ scan_unchanged /\ inputs_unchanged

\* parse_cv_lv.py: else
CvPresentStdout ==
    /\ LoopDone
    /\ script = "parse_cv_lv"
    /\ ~(args.output # None)
    /\ stdout' = stdout \o << Written("json", <<>>, json_dump(results)),
                              Written("message", print(<<>>), NoDocument) >>
    /\ files' = files
    /\ pc' = "done"
    /\ scan_unchanged /\ inputs_unchanged

\* the process is interrupted from outside (KeyboardInterrupt) before the
\* presenter has run: the exception leaves every block, the with block
\* removes its directory on the way, the frame of scrape_page is gone, and
\* main ends without presenting
Interrupt ==
    /\ pc \notin {"done", "interrupted"}
    /\ tmpdirs' = IF pc = "scrape_image" THEN cleanup(tmpdirs, mkdtemp) ELSE tmpdirs
    /\ tmpfiles' = IF pc = "scrape_image"
                   THEN {f \in tmpfiles : f[1] \in cleanup(tmpdirs, mkdtemp)}
                   ELSE tmpfiles
    /\ pc' = "interrupted"
    /\ page_data' = new_page_data(<<>>)
    /\ url' = <<>>
    /\ html' = [strings |-> <<>>, imgs |-> <<>>]
    /\ img_tags' = <<>>
    /\ k' = 0
    /\ calls' = <<>>
    /\ img_log' = <<>>
    /\ UNCHANGED <<results, i>>
    /\ outputs_unchanged /\ inputs_unchanged

Next ==
    \/ ForNext
    \/ FetchFail
    \/ FetchOk
    \/ ParsePage
    \/ EnterTmp
    \/ ImgNoSrc
    \/ ImgDownloadFail
    \/ ImgProcessed
    \/ ExitTmp
    \/ ReturnAppend
    \/ PresentMarkdown
    \/ PresentJsonFile
    \/ PresentTextOnly
    \/ CvPresentFile
    \/ CvPresentStdout
    \/ Interrupt

Spec == Init /\ [][Next]_vars

-----------------------------------------------------------------------------
(* detect_relevant_langs alone, on every answer of the detector *)

MaxRanked == 3

Codes == {"lav", "rus", "eng", "en", "ru"}

RankedLists == UNION {[1..n -> Codes] : n \in 0..MaxRanked}

DetectorAnswers == {DetectorRaised} \cup [raised : {FALSE}, langs : RankedLists]

InitDetect ==
    /\ script = "parse_cv_lv"
    /\ args = [urls |-> <<>>, output |-> None, markdown |-> FALSE, md_file |-> None]
    /\ pc = "detect"
    /\ results = <<>>
    /\ i = 0
    /\ url = <<>>
    /\ page_data = new_page_data(<<>>)
    /\ html = [strings |-> <<>>, imgs |-> <<>>]
    /\ img_tags = <<>>
    /\ k = 0
    /\ tmpdirs = {}
    /\ tmpfiles = {}
    /\ files = {}
    /\ stdout = <<>>
    /\ calls = <<>>
    /\ img_log = <<>>
    /\ detected \in DetectorAnswers
    /\ relevant = <<>>

\* one call of detect_relevant_langs
DetectCall ==
    /\ pc = "detect"
    /\ relevant' = detect_relevant_langs(detected)
    /\ pc' = "detected"
    /\ UNCHANGED <<script, args, results, i, url, page_data, html, img_tags, k,
                   tmpdirs, tmpfiles, files, stdout, calls, img_log, detected>>

NextDetect == DetectCall

SpecDetect == InitDetect /\ [][NextDetect]_vars

-----------------------------------------------------------------------------
(* Claims *)

Count(seq, x) == Cardinality({j \in DOMAIN seq : seq[j] = x})

Failed(page) == "error" \in DOMAIN page

\* C1: the batch loop yields one record per input URL, in input order: the
\* records made so far belong to the first URLs, position by position, and
\* when main is done there are as many records as URLs, whatever failed.
C1_OneRecordPerUrlInOrder ==
    /\ Len(results) <= Len(args.urls)
    /\ \A j \in 1..Len(results) : results[j].url = args.urls[j]
    /\ pc = "done" => Len(results) = Len(args.urls)

C1_Witness ==
    /\ pc = "done"
    /\ Len(results) >= 2
    /\ Failed(results[1])
    /\ ~Failed(results[2])
    /\ Len(results[2].images) = 1

\* C2: when the page fetch fails, scrape_page returns a record with the url
\* and an error string and empty visible_text, visible_text_langs and images,
\* and it has done nothing but the fetch: no extraction, no detection, no
\* image download, no OCR, no temporary directory.
C2_FetchFailureStopsTheScan ==
    /\ (pc = "scrape_return" /\ Count(calls, "session.get raised") > 0) =>
          /\ Failed(page_data)
          /\ page_data.error \in FetchErrors
          /\ page_data.url = url
          /\ page_data.visible_text = <<>>
          /\ page_data.visible_text_langs = <<>>
          /\ page_data.images = <<>>
          /\ calls = <<"session.get raised">>
          /\ img_log = <<>>
          /\ tmpdirs = {} /\ tmpfiles = {}
    /\ \A j \in 1..Len(results) :
          Failed(results[j]) =>
              /\ results[j].visible_text = <<>>
              /\ results[j].visible_text_langs = <<>>
              /\ results[j].images = <<>>

C2_Witness ==
    /\ pc = "scrape_return"
    /\ calls = <<"session.get raised">>
    /\ Failed(page_data)
    /\ i = 2

HasSrc(tag) == tag # <<>>
DownloadOk(e) == e.download = "ok"
DownloadFailed(e) == e.download = "failed"

\* C3 (as amended): for a fetched page, images has one record per img tag
\* with a non-empty src whose download succeeded: its length is the number
\* of img tags with a src minus the number of failed downloads, the records
\* are in tag order, and an image whose OCR raised has empty ocr_text and
\* empty ocr_langs, one whose detection raised has empty ocr_langs.
C3_ImagesOfDownloadedSrcs ==
    (pc = "scrape_return" /\ ~Failed(page_data)) =>
        LET ok == SelectSeq(img_log, DownloadOk)
            images == page_data.images
        IN  /\ Len(img_log) = Len(img_tags)
            /\ Len(images) = Len(SelectSeq(img_tags, HasSrc))
                             - Len(SelectSeq(img_log, DownloadFailed))
            /\ Len(images) = Len(ok)
            /\ \A j \in 1..Len(ok) :
                  /\ images[j].src = ok[j].src
                  /\ ok[j].ocr_raised =>
                        images[j].ocr_text = <<>> /\ images[j].ocr_langs = <<>>
                  /\ ok[j].det_raised => images[j].ocr_langs = <<>>

C3_Witness ==
    /\ pc = "scrape_return"
    /\ ~Failed(page_data)
    /\ Len(img_tags) = 3
    /\ Len(SelectSeq(img_log, DownloadFailed)) = 1
    /\ Len(page_data.images) = 1
    /\ img_log[3].download = "ok" /\ img_log[3].ocr_raised

\* C3 as stated: the length of images is the number of img elements minus
\* the number of failed downloads.
C3_AsStated ==
    (pc = "scrape_return" /\ ~Failed(page_data)) =>
        Len(page_data.images) = Len(img_tags) - Len(SelectSeq(img_log, DownloadFailed))

\* C4: the temporary directory is scoped to one page scan: at most one
\* exists at any time, inside the with block it is the directory of the
\* current page, and outside it - when scrape_page returns, when the next
\* scan starts, when main is done - no directory and no file in one is left.
C4_TmpDirScopedToOneScan ==
    /\ Cardinality(tmpdirs) <= 1
    /\ pc = "scrape_image" => tmpdirs = {i}
    /\ pc # "scrape_image" => tmpdirs = {} /\ tmpfiles = {}
    /\ \A f \in tmpfiles : f[1] \in tmpdirs

C4_Witness ==
    /\ pc = "scrape_return"
    /\ i = 2
    /\ Count(calls, "cleanup") = 1
    /\ Len(SelectSeq(img_log, DownloadFailed)) = 1
    /\ Len(SelectSeq(img_log, DownloadOk)) = 1
    /\ tmpdirs = {}

\* C5: detect_relevant_langs returns the detector's ranked codes without the
\* codes outside the three supported ones, the others in the detector's
\* order, and the empty list when the detector raised.
C5_SupportedCodesInDetectorOrder ==
    pc = "detected" =>
        LET supported == {"lav", "rus", "eng"}
            kept == {j \in 1..Len(detected.langs) : detected.langs[j] \in supported}
            nth(m) == CHOOSE j \in kept : Cardinality({x \in kept : x <= j}) = m
        IN  IF detected.raised THEN relevant = <<>>
            ELSE /\ Len(relevant) = Cardinality(kept)
                 /\ \A m \in 1..Len(relevant) : relevant[m] = detected.langs[nth(m)]
                 /\ \A m \in 1..Len(relevant) : relevant[m] \in supported

C5_Witness ==
    /\ pc = "detected"
    /\ detected.langs = <<"en", "rus", "eng">>
    /\ relevant = <<"rus", "eng">>

RenderingModes ==
    ({f.mode : f \in files} \cup {stdout[j].mode : j \in 1..Len(stdout)}) \ {"message"}

\* C6: when main of parse_cv_lv_m_i.py is done, exactly one of the rendering
\* modes json, markdown and text has written output, for every combination
\* of -o, --markdown and --md-file; before that, none has.
C6_ExactlyOneRenderingMode ==
    script = "parse_cv_lv_m_i" =>
        /\ RenderingModes \subseteq {"json", "markdown", "text"}
        /\ pc = "done" => Cardinality(RenderingModes) = 1
        /\ pc # "done" => RenderingModes = {}

C6_Witness ==
    /\ script = "parse_cv_lv_m_i"
    /\ pc = "done"
    /\ args.output # None /\ args.markdown /\ args.md_file # None
    /\ RenderingModes = {"markdown"}
    /\ Len(stdout) = 2

\* C7: when main of parse_cv_lv_m_i.py is done and -o was given, the JSON
\* serialization of the results is in that file, whatever the other flags.
C7_OutputFileHoldsJson ==
    (script = "parse_cv_lv_m_i" /\ pc = "done" /\ args.output # None) =>
        \E f \in files :
            /\ f.path = args.output
            /\ f.mode = "json"
            /\ f.document = json_dump(results)

ScanCreated == Count(calls, "TemporaryDirectory")
ScanRemoved == Count(calls, "cleanup")

\* C10 (as amended): a page scan creates one temporary directory and tears
\* it down exactly when the page was fetched and has at least one img
\* element; a page without img elements and a page whose fetch failed
\* create none; in every case all that was created is removed on return.
C10_TmpDirOnlyForPagesWithImgTags ==
    pc = "scrape_return" =>
        /\ ScanCreated = (IF ~Failed(page_data) /\ img_tags # <<>> THEN 1 ELSE 0)
        /\ ScanRemoved = ScanCreated

C10_Witness ==
    /\ pc = "scrape_return"
    /\ ~Failed(page_data)
    /\ img_tags # <<>>
    /\ ScanCreated = 1 /\ ScanRemoved = 1

\* C10 as stated: every page scan has created exactly one temporary
\* directory and torn it down when it returns.
C10_AsStated ==
    pc = "scrape_return" => ScanCreated = 1 /\ ScanRemoved = 1

MarkdownOutputs ==
    {f.text : f \in {g \in files : g.mode = "markdown"}}
    \cup {stdout[j].text : j \in {m \in 1..Len(stdout) : stdout[m].mode = "markdown"}}

\* the positions of token tok in text, and the m-th of them
Positions(text, tok) == {p \in 1..Len(text) : text[p] = tok}
Nth(ps, m) == CHOOSE p \in ps : Cardinality({q \in ps : q <= p}) = m

\* text holds the tokens of value right after position p
Follows(text, p, value) ==
    /\ p + Len(value) <= Len(text)
    /\ SubSeq(text, p + 1, p + Len(value)) = value

NotNewline(tok) == tok # "\n"

\* the part of the markdown text md that belongs to the j-th of n pages:
\* from its heading to the token before the next heading
PageSection(md, j, n) ==
    LET heads == Positions(md, "# URL: ")
    IN  SubSeq(md, Nth(heads, j), IF j < n THEN Nth(heads, j + 1) - 1 ELSE Len(md))

\* the section sec of a markdown text is what C8 says of page
SectionMatchesPage(sec, page) ==
    /\ Follows(sec, 1, page.url \o <<"\n">>)
    /\ IF Failed(page)
       THEN SelectSeq(sec, NotNewline)
                = <<"# URL: ">> \o page.url \o <<"**Error:** ">> \o page.error
       ELSE /\ Count(sec, "**Error:** ") = 0
            /\ Count(sec, "## Visible text") = 1
            /\ \A p \in Positions(sec, "## Visible text") :
                  Follows(sec, p, <<"\n", "\n">> \o page.visible_text \o <<"\n">>)
            /\ Count(sec, "**Detected languages:** ")
                  = (IF page.visible_text_langs # <<>> THEN 1 ELSE 0)
            /\ Count(sec, "## Images with OCR") = (IF page.images # <<>> THEN 1 ELSE 0)
            /\ Count(sec, "### Image: ") = Len(page.images)
            /\ \A m \in 1..Len(page.images) :
                  Follows(sec, Nth(Positions(sec, "### Image: "), m),
                          page.images[m].src \o <<"\n">>)

\* C8: the markdown text has one top-level heading per record, in the order
\* of the records, each with the record's URL; after the heading of a record
\* with error comes the bolded error line and nothing else; a record without
\* error gets the visible-text section, a languages line exactly when
\* visible_text_langs is not empty, and, exactly when images is not empty,
\* the images section with one subsection per image, in list order.
C8_MarkdownSectionsPerRecord ==
    \A md \in MarkdownOutputs :
        /\ Count(md, "# URL: ") = Len(results)
        /\ \A j \in 1..Len(results) :
              SectionMatchesPage(PageSection(md, j, Len(results)), results[j])

C8_Witness ==
    /\ pc = "done"
    /\ MarkdownOutputs # {}
    /\ Len(results) >= 2
    /\ Failed(results[1])
    /\ ~Failed(results[2])
    /\ Len(results[2].images) = 2
    /\ results[2].images[1].ocr_langs # <<>>

TextOnlyOutputs ==
    {stdout[j].text : j \in {m \in 1..Len(stdout) : stdout[m].mode = "text"}}

\* the images whose OCR text is not empty after trimming, as <<page, image>>
\* positions, and their order: by page, then by image
NonEmptyOcr ==
    {pj \in UNION {{<<p, j>> : j \in 1..Len(results[p].images)} : p \in 1..Len(results)} :
        strip(results[pj[1]].images[pj[2]].ocr_text) # <<>>}

Before(a, b) == a[1] < b[1] \/ (a[1] = b[1] /\ a[2] <= b[2])

NthNonEmptyOcr(m) ==
    CHOOSE a \in NonEmptyOcr : Cardinality({b \in NonEmptyOcr : Before(b, a)}) = m

RECURSIVE TextItemsFrom(_)
TextItemsFrom(m) ==
    IF m > Cardinality(NonEmptyOcr) THEN <<>>
    ELSE LET a == NthNonEmptyOcr(m)
         IN  strip(results[a[1]].images[a[2]].ocr_text)
             \o (IF m < Cardinality(NonEmptyOcr) THEN <<"\n", "\n">> ELSE <<>>)
             \o TextItemsFrom(m + 1)

\* C9 (as amended): text-only mode writes the trimmed OCR texts that are not
\* empty, in page order then image order, with a double line break between
\* consecutive ones and nothing else, followed by the one line break that
\* print appends; with no such text the output is that line break alone.
C9_TextOnlyItemsThenLineBreak ==
    \A out \in TextOnlyOutputs : out = TextItemsFrom(1) \o <<"\n">>

C9_Witness ==
    /\ pc = "done"
    /\ TextOnlyOutputs # {}
    /\ Cardinality(NonEmptyOcr) = 3
    /\ \E p \in 1..Len(results) :
          /\ Len(results[p].images) = 2
          /\ results[p].images[1].ocr_text = <<" ", "\n">>

\* C9 as stated: the output is the items with their separators, and when
\* no image yields a non-empty OCR text the output is the empty string.
C9_AsStated ==
    \A out \in TextOnlyOutputs :
        IF Cardinality(NonEmptyOcr) = 0
        THEN out = <<>>
        ELSE out = TextItemsFrom(1) \o <<"\n">>

SinksEmpty == files = {} /\ stdout = <<>>

\* C11: nothing is written to a file or to standard output while the batch
\* runs; the one step that writes is the presenter's, taken when every URL
\* has been scanned and every record collected, from empty sinks, and it
\* ends main, so it runs once; a run interrupted before that has written
\* nothing.
C11_PresenterOnceAfterTheBatch ==
    /\ [](pc # "done" => SinksEmpty)
    /\ [](pc = "done" => ~SinksEmpty /\ i = Len(args.urls)
                         /\ Len(results) = Len(args.urls))
    /\ [][(files' # files \/ stdout' # stdout) =>
              /\ SinksEmpty
              /\ pc = "main_loop" /\ pc' = "done"
              /\ i = Len(args.urls)
              /\ Len(results) = Len(args.urls)
              /\ results' = results]_vars

C11_Witness ==
    /\ pc = "interrupted"
    /\ Len(args.urls) >= 2
    /\ Len(results) = Len(args.urls) - 1
    /\ i = Len(args.urls)
    /\ args.output # None
    /\ SinksEmpty

====
